---- MODULE Spec2Model ----
(***************************************************************************)
(* The PNG chunk codec of pngme: ChunkType (src/src/chunk_type.rs) and     *)
(* Chunk (src/src/chunk.rs).                                               *)
(*                                                                         *)
(* Machine integers are bit vectors, least significant bit first: a u32 is *)
(* a sequence of 32 bits, a usize one of 64 (a 64-bit build).  A byte is a *)
(* number in 0..255.  A byte buffer (a slice or Vec<u8>) is a record       *)
(* [pre, gap, post]: the bytes of pre, then gap blocks of 2^32 zero bytes, *)
(* then the bytes of post, so that buffers of 4 GiB and more, which a      *)
(* 64-bit build can hold, are values of the model.                         *)
(***************************************************************************)
EXTENDS Integers, Sequences, FiniteSets, TLC

\* ------------------------------------------------------------------ bounds

\* Longest payload enumerated byte by byte.
MaxData == 2

\* Longest string handed to ChunkType::from_str.
MaxStrLen == 4

\* Longest tail of a raw buffer handed to Chunk::try_from.
MaxRaw == 2

\* ------------------------------------------------------- machine integers

Byte == 0..255

Bit == {0, 1}

\* A sequence given by a rule, in explicit form.
Vec(f) == f \o <<>>

RECURSIVE Pow2(_)
Pow2(n) == IF n = 0 THEN 1 ELSE 2 * Pow2(n - 1)

\* The w-bit vector of a natural number below 2^31.
Bits(n, w) == Vec([i \in 1..w |-> IF i > 31 THEN 0 ELSE (n \div Pow2(i - 1)) % 2])

\* The byte whose bits are v[lo] (least significant) .. v[lo+7].
ByteAt(v, lo) ==
    v[lo] + 2 * v[lo + 1] + 4 * v[lo + 2] + 8 * v[lo + 3] + 16 * v[lo + 4]
    + 32 * v[lo + 5] + 64 * v[lo + 6] + 128 * v[lo + 7]

Xor(a, b) == Vec([i \in DOMAIN a |-> (a[i] + b[i]) % 2])

\* x >> 1 on a 32-bit vector.
Shr1(x) == Tail(x) \o <<0>>

\* a < b for two bit vectors of one width.
Less(a, b) ==
    \E i \in DOMAIN a :
        /\ a[i] < b[i]
        /\ \A j \in DOMAIN a : j > i => a[j] = b[j]

\* u32::to_be_bytes: most significant byte first.
to_be_bytes(x) == <<ByteAt(x, 25), ByteAt(x, 17), ByteAt(x, 9), ByteAt(x, 1)>>

\* from_le_bytes in place of from_be_bytes.
from_le_bytes(b) ==
    Vec([i \in 1..32 |-> (b[1 + ((i - 1) \div 8)] \div Pow2((i - 1) % 8)) % 2])

\* u32::from_be_bytes.
from_be_bytes(b) ==
    Vec([i \in 1..32 |-> (b[4 - ((i - 1) \div 8)] \div Pow2((i - 1) % 8)) % 2])

\* `x as usize` of a u32: zero extension to 64 bits.
AsUsize(x) == x \o Bits(0, 32)

\* `n as u32` of a usize: the low 32 bits.
AsU32(n) == SubSeq(n, 1, 32)

\* The number a bit vector holds, for vectors whose bits from 32 up are 0.
RECURSIVE NatOfFrom(_, _)
NatOfFrom(v, i) == IF i > 31 THEN 0 ELSE v[i] + 2 * NatOfFrom(v, i + 1)

NatOf(v) == NatOfFrom(v, 1)

Small(v) == \A i \in DOMAIN v : i > 31 => v[i] = 0

\* ---------------------------------------------------------- byte buffers

Buffer(s) == [pre |-> s, gap |-> 0, post |-> <<>>]

Norm(b) ==
    IF b.gap = 0 THEN [pre |-> b.pre \o b.post, gap |-> 0, post |-> <<>>] ELSE b

\* Concatenation of a buffer with explicit bytes on either side.
Before(s, b) == [b EXCEPT !.pre = s \o b.pre]

After(b, s) == Norm([b EXCEPT !.post = b.post \o s])

\* slice::len, a usize.
len(b) == [Bits(Len(b.pre) + Len(b.post), 64) EXCEPT ![33] = b.gap]

\* ----------------------------------------------------------------- CRC-32

\* The reflected polynomial of CRC-32/ISO-HDLC (0x04C11DB7 reflected).
Poly == from_be_bytes(<<237, 184, 131, 32>>)

Ones == Vec([i \in 1..32 |-> 1])

Zeros == Bits(0, 32)

\* One bit of the register's shift: one multiplication by x modulo Poly.
Step(r) == IF r[1] = 1 THEN Xor(Shr1(r), Poly) ELSE Shr1(r)

RECURSIVE Steps(_, _)
Steps(r, n) == IF n = 0 THEN r ELSE Step(Steps(r, n - 1))

\* The register after one more input byte: the byte is xored into the low
\* bits, then 8 shifts.
Update(r, byte) == Steps(Xor(r, Bits(byte, 32)), 8)

U32 == [1..32 -> Bit]

\* The register r after the bytes of s, in order.  The bytes are taken by
\* halves, each half's register computed before the next half starts.
UpdateAll(r, s) ==
    LET after[q \in U32, lo \in 1..Len(s), hi \in 1..Len(s)] ==
            IF lo = hi THEN Update(q, s[lo])
            ELSE after[after[q, lo, (lo + hi) \div 2], ((lo + hi) \div 2) + 1, hi]
    IN  IF s = <<>> THEN r ELSE after[r, 1, Len(s)]

\* The product of the polynomials a and b modulo Poly in the register's
\* reflected form (bit k is x^(32-k)): Horner's rule over the bits of a.
MultModP(a, b) ==
    LET horner[acc \in U32, lo \in 1..32, hi \in 1..32] ==
            IF lo = hi THEN IF a[lo] = 1 THEN Xor(Step(acc), b) ELSE Step(acc)
            ELSE horner[horner[acc, lo, (lo + hi) \div 2], ((lo + hi) \div 2) + 1, hi]
    IN  horner[Zeros, 1, 32]

\* p squared n times modulo Poly.
Squared[p \in U32, n \in 1..64] ==
    IF n = 1 THEN MultModP(p, p) ELSE Squared[Squared[p, n \div 2], n - (n \div 2)]

\* The register after one block of 2^32 zero bytes: 2^35 shifts, each a
\* multiplication by x, so one multiplication by x^(2^35).
SkipBlock == Squared[Shr1(Bits(0, 31) \o <<1>>), 35]

UpdateGap(r, gap) == IF gap = 0 THEN r ELSE MultModP(SkipBlock, r)

\* Crc::<u32>::new(&CRC_32_ISO_HDLC).checksum(bytes): init 0xFFFFFFFF,
\* reflected in and out, final xor 0xFFFFFFFF.
checksum(b) ==
    Xor(UpdateAll(UpdateGap(UpdateAll(Ones, b.pre), b.gap), b.post), Ones)

\* -------------------------------------------------------------- results

Ok(v) == [ok |-> TRUE, val |-> v]

Err(e) == [ok |-> FALSE, err |-> e]

\* No result yet.
Unset == Err("unset")

\* ------------------------------------------- ChunkType (chunk_type.rs)

is_ascii_uppercase(c) == c \in 65..90

is_ascii_lowercase(c) == c \in 97..122

is_ascii_alphabetic(c) == is_ascii_uppercase(c) \/ is_ascii_lowercase(c)

bytes(t) == t.code

is_critical(t) == is_ascii_uppercase(t.code[1])

\* is_public that reads the first byte instead of the second.
is_public_first_byte(t) == is_ascii_uppercase(t.code[1])

is_public(t) == is_ascii_uppercase(t.code[2])

is_reserved_bit_valid(t) == is_ascii_uppercase(t.code[3])

is_safe_to_copy(t) == is_ascii_lowercase(t.code[4])

is_valid(t) == is_reserved_bit_valid(t)

\* try_from with all() in place of any(): only four bad bytes are refused.
ChunkType_try_from_all(value) ==
    IF \A i \in 1..4 : ~is_ascii_alphabetic(value[i])
    THEN Err([kind |-> "NonAlphabeticCharacters"])
    ELSE Ok([code |-> value])

\* impl TryFrom<[u8; 4]> for ChunkType
ChunkType_try_from(value) ==
    IF \E i \in 1..4 : ~is_ascii_alphabetic(value[i])
    THEN Err([kind |-> "NonAlphabeticCharacters"])
    ELSE Ok([code |-> value])

\* A string is the sequence of its chars (code points).  The UTF-8 bytes of
\* one char:
Utf8Char(c) ==
    IF c < 128 THEN <<c>>
    ELSE IF c < 2048 THEN <<192 + (c \div 64), 128 + (c % 64)>>
    ELSE IF c < 65536
    THEN <<224 + (c \div 4096), 128 + ((c \div 64) % 64), 128 + (c % 64)>>
    ELSE <<240 + (c \div 262144), 128 + ((c \div 4096) % 64),
           128 + ((c \div 64) % 64), 128 + (c % 64)>>

\* str::as_bytes
RECURSIVE str_as_bytes(_)
str_as_bytes(s) ==
    IF s = <<>> THEN <<>> ELSE Utf8Char(Head(s)) \o str_as_bytes(Tail(s))

\* str::len: the length in bytes.
str_len(s) == Len(str_as_bytes(s))

\* from_str with the two checks in the other order.
from_str_length_first(s) ==
    IF str_len(s) # 4
    THEN Err([kind |-> "InvalidStringLength", len |-> str_len(s)])
    ELSE IF \E i \in 1..Len(s) : ~is_ascii_alphabetic(s[i])
    THEN Err([kind |-> "NonAlphabeticCharacters"])
    ELSE Ok([code |-> str_as_bytes(s)])

\* impl FromStr for ChunkType
from_str(s) ==
    IF \E i \in 1..Len(s) : ~is_ascii_alphabetic(s[i])
    THEN Err([kind |-> "NonAlphabeticCharacters"])
    ELSE IF str_len(s) # 4
    THEN Err([kind |-> "InvalidStringLength", len |-> str_len(s)])
    ELSE Ok([code |-> str_as_bytes(s)])

\* ---------------------------------------------------- Chunk (chunk.rs)

\* The checksum's input without the type bytes.
CrcInput_data_only(chunk_type, data) == data

\* [&chunk_type.bytes()[..], data].concat(): what the checksum runs over.
CrcInput(chunk_type, data) == Before(bytes(chunk_type), data)

\* Chunk::new
Chunk_new(chunk_type, data) ==
    [chunk_type |-> chunk_type,
     data       |-> data,
     length     |-> AsU32(len(data)),
     crc        |-> checksum(CrcInput(chunk_type, data))]

length(c) == c.length

chunk_type(c) == c.chunk_type

data(c) == c.data

crc(c) == c.crc

\* as_bytes with to_le_bytes in place of to_be_bytes.
as_bytes_le(c) ==
    LET le(x) == <<ByteAt(x, 1), ByteAt(x, 9), ByteAt(x, 17), ByteAt(x, 25)>>
    IN  After(Before(le(c.length) \o bytes(c.chunk_type), c.data), le(c.crc))

\* Chunk::as_bytes
as_bytes(c) ==
    After(Before(to_be_bytes(c.length) \o bytes(c.chunk_type), c.data),
          to_be_bytes(c.crc))

\* The first k bytes of a stream that holds them; bytes past pre come out of
\* the gap, which is zero bytes.
Take(stream, k) ==
    IF k <= Len(stream.pre) THEN Buffer(SubSeq(stream.pre, 1, k))
    ELSE Buffer(stream.pre \o [i \in 1..(k - Len(stream.pre)) |-> 0])

\* The stream after its first k bytes, k within pre.
Drop(stream, k) ==
    CASE k <= Len(stream.pre) ->
        [stream EXCEPT !.pre = SubSeq(stream.pre, k + 1, Len(stream.pre))]

\* <&[u8] as Read>::read_exact for a buffer of n bytes (n a usize): fails
\* with UnexpectedEof when the stream holds fewer.
read_exact(stream, n) ==
    IF Less(len(stream), n) THEN Err("UnexpectedEof")
    ELSE CASE Small(n) -> Ok([bytes |-> Take(stream, NatOf(n)), n |-> NatOf(n)])

\* The stream after a read_exact that succeeded.
Rest(stream, r) == Drop(stream, r.val.n)

Four == Bits(4, 64)

\* The comparison left out: no checksum is ever found wrong.
Mismatch_never(stored, ct, payload) == FALSE

\* crc != Self::CRC.checksum(..): the stored checksum is not the computed one.
Mismatch(stored, ct, payload) == stored # checksum(CrcInput(ct, payload))

\* try_from that reads all four fields before it looks at the type.
Chunk_try_from_type_last(value) ==
    LET r1     == read_exact(value, Four)
        s1     == Rest(value, r1)
        lengthv == from_be_bytes(r1.val.bytes.pre)
        r2     == read_exact(s1, Four)
        s2     == Rest(s1, r2)
        ct     == ChunkType_try_from(r2.val.bytes.pre)
        r3     == read_exact(s2, AsUsize(lengthv))
        s3     == Rest(s2, r3)
        r4     == read_exact(s3, Four)
        crcv   == from_be_bytes(r4.val.bytes.pre)
    IN  IF ~r1.ok THEN Err([kind |-> "InvalidChunkData"])
        ELSE IF ~r2.ok THEN Err([kind |-> "InvalidChunkData"])
        ELSE IF ~r3.ok THEN Err([kind |-> "InvalidChunkData"])
        ELSE IF ~r4.ok THEN Err([kind |-> "InvalidChunkData"])
        ELSE IF ~ct.ok THEN Err([kind |-> "BadChunkType", source |-> ct.err])
        ELSE IF Mismatch(crcv, ct.val, r3.val.bytes)
        THEN Err([kind |-> "ChecksumError"])
        ELSE Ok([chunk_type |-> ct.val,
                 data       |-> r3.val.bytes,
                 length     |-> lengthv,
                 crc        |-> crcv])

\* impl TryFrom<&[u8]> for Chunk
Chunk_try_from(value) ==
    LET r1     == read_exact(value, Four)
        s1     == Rest(value, r1)
        lengthv == from_be_bytes(r1.val.bytes.pre)
        r2     == read_exact(s1, Four)
        s2     == Rest(s1, r2)
        ct     == ChunkType_try_from(r2.val.bytes.pre)
        r3     == read_exact(s2, AsUsize(lengthv))
        s3     == Rest(s2, r3)
        r4     == read_exact(s3, Four)
        crcv   == from_be_bytes(r4.val.bytes.pre)
    IN  IF ~r1.ok THEN Err([kind |-> "InvalidChunkData"])
        ELSE IF ~r2.ok THEN Err([kind |-> "InvalidChunkData"])
        ELSE IF ~ct.ok THEN Err([kind |-> "BadChunkType", source |-> ct.err])
        ELSE IF ~r3.ok THEN Err([kind |-> "InvalidChunkData"])
        ELSE IF ~r4.ok THEN Err([kind |-> "InvalidChunkData"])
        ELSE IF Mismatch(crcv, ct.val, r3.val.bytes)
        THEN Err([kind |-> "ChecksumError"])
        ELSE Ok([chunk_type |-> ct.val,
                 data       |-> r3.val.bytes,
                 length     |-> lengthv,
                 crc        |-> crcv])

\* ------------------------------------------------------------- inputs

\* "This is where your secret message will be!", the payload of the tests.
Message ==
    <<84, 104, 105, 115, 32, 105, 115, 32, 119, 104, 101, 114, 101, 32, 121,
      111, 117, 114, 32, 115, 101, 99, 114, 101, 116, 32, 109, 101, 115, 115,
      97, 103, 101, 32, 119, 105, 108, 108, 32, 98, 101, 33>>

\* "RuSt", "Rust", "ruSt", "RUSt", "RuST", "Ru1t": the tags of the tests.
RuSt == <<82, 117, 83, 116>>

Tags ==
    {RuSt, <<82, 117, 115, 116>>, <<114, 117, 83, 116>>, <<82, 85, 83, 116>>,
     <<82, 117, 83, 84>>, <<82, 117, 49, 116>>}

\* Bytes at and around the ends of A-Z and a-z, a digit and a byte >= 0x80.
ByteSample == {64, 65, 90, 91, 96, 97, 122, 123, 49, 128}

TypeInputs == [1..4 -> ByteSample] \cup Tags

\* 'R', 'u', 'S', 't', '1' and U+00E9, which takes two bytes.
Chars == {82, 117, 83, 116, 49, 233}

StrInputs == UNION {[1..n -> Chars] : n \in 0..MaxStrLen}

\* The chunk types handed to Chunk::new: "RuSt" and "Rust".
ChunkTypes == {[code |-> RuSt], [code |-> <<82, 117, 115, 116>>]}

DataBytes == {0, 255}

\* Payloads: every byte string over DataBytes up to MaxData bytes; for each
\* type the checksum bytes of its empty chunk (a payload that holds the
\* tail of an encoded chunk); the message of the tests with "RuSt"; and
\* payloads of 2^32 bytes and more.
NewInputs ==
    (ChunkTypes \X {Buffer(d) : d \in UNION {[1..n -> DataBytes] : n \in 0..MaxData}})
    \cup {<<t, Buffer(to_be_bytes(checksum(Buffer(bytes(t)))))>> : t \in ChunkTypes}
    \cup {<<[code |-> RuSt], Buffer(Message)>>}
    \cup (ChunkTypes \X {[pre |-> <<>>, gap |-> 1, post |-> <<>>],
                         [pre |-> <<255>>, gap |-> 1, post |-> <<>>]})

\* testing_chunk_data() of the tests: length 42, "RuSt", the message and the
\* checksum 2882656334 (0xABD1D84E).
TestingChunkData == <<0, 0, 0, 42>> \o RuSt \o Message \o <<171, 209, 216, 78>>

\* The buffer of test_invalid_chunk_from_bytes: the same with the checksum
\* 2882656333 (0xABD1D84D).
InvalidChunkData == <<0, 0, 0, 42>> \o RuSt \o Message \o <<171, 209, 216, 77>>

\* Raw buffers: the two buffers of the tests, and a length field, a type
\* field ("RuSt" or "Ru1t") and a tail, cut anywhere.
RawBuffers ==
    {TestingChunkData, InvalidChunkData} \cup UNION {{SubSeq(to_be_bytes(Bits(l, 32)) \o t \o tail, 1, n) : n \in 0..(8 + Len(tail))} :
        l \in 0..(MaxRaw + 1),
        t \in {RuSt, <<82, 117, 49, 116>>},
        tail \in UNION {[1..k -> DataBytes] : k \in 0..MaxRaw}}

\* -------------------------------------------------------------- state

VARIABLES
    pc,      \* the operation that acted last
    arg,     \* the input of the last ChunkType constructor or of Chunk::new
    typ,     \* the result of the last ChunkType constructor
    query,   \* the last property query and its result
    chunk,   \* the Chunk that Chunk::new built
    wire,    \* what as_bytes returned
    buf,     \* the buffer handed to Chunk::try_from
    tamper,  \* how buf was derived from wire
    parsed   \* the result of Chunk::try_from

vars == <<pc, arg, typ, query, chunk, wire, buf, tamper, parsed>>

NoChunk == [chunk_type |-> [code |-> <<>>], data |-> Buffer(<<>>),
            length |-> Zeros, crc |-> Zeros]

Init ==
    /\ pc = "start"
    /\ arg = <<>>
    /\ typ = Unset
    /\ query = [op |-> "none", result |-> FALSE]
    /\ chunk = NoChunk
    /\ wire = Buffer(<<>>)
    /\ buf = Buffer(<<>>)
    /\ tamper = [kind |-> "none", at |-> 0]
    /\ parsed = Unset

\* ChunkType::try_from(value)
TypeTryFrom ==
    /\ pc = "start"
    /\ \E value \in TypeInputs :
        /\ arg' = value
        /\ typ' = ChunkType_try_from(value)
    /\ pc' = "try_from"
    /\ UNCHANGED <<query, chunk, wire, buf, tamper, parsed>>

\* ChunkType::from_str(s)
TypeFromStr ==
    /\ pc = "start"
    /\ \E s \in StrInputs :
        /\ arg' = s
        /\ typ' = from_str(s)
    /\ pc' = "from_str"
    /\ UNCHANGED <<query, chunk, wire, buf, tamper, parsed>>

Typed == pc \in {"try_from", "from_str"} /\ typ.ok

Asked(op, result) ==
    /\ Typed
    /\ query' = [op |-> op, result |-> result]
    /\ pc' = "query"
    /\ UNCHANGED <<arg, typ, chunk, wire, buf, tamper, parsed>>

IsCritical == Asked("is_critical", is_critical(typ.val))

IsPublic == Asked("is_public", is_public(typ.val))

IsReservedBitValid == Asked("is_reserved_bit_valid", is_reserved_bit_valid(typ.val))

IsSafeToCopy == Asked("is_safe_to_copy", is_safe_to_copy(typ.val))

IsValid == Asked("is_valid", is_valid(typ.val))

\* Chunk::new(chunk_type, data)
ChunkNew ==
    /\ pc = "start"
    /\ \E in \in NewInputs :
        /\ arg' = in
        /\ chunk' = Chunk_new(in[1], in[2])
    /\ pc' = "new"
    /\ UNCHANGED <<typ, query, wire, buf, tamper, parsed>>

\* chunk.as_bytes(): the chunk is borrowed, not changed.
AsBytes ==
    /\ pc = "new"
    /\ wire' = as_bytes(chunk)
    /\ buf' = wire'
    /\ pc' = "as_bytes"
    /\ UNCHANGED <<arg, typ, query, chunk, tamper, parsed>>

\* Byte k of s with bit j flipped.
FlipIn(s, k, j) ==
    [s EXCEPT ![k] = IF (s[k] \div Pow2(j)) % 2 = 1 THEN s[k] - Pow2(j)
                     ELSE s[k] + Pow2(j)]

\* One bit of the encoded chunk flips on its way: bit i of the buffer, bit 0
\* the lowest bit of the first byte.
FlipBit ==
    /\ pc = "as_bytes"
    /\ buf.gap = 0
    /\ \E i \in 0..(8 * Len(buf.pre) - 1) :
        /\ buf' = [buf EXCEPT !.pre = FlipIn(buf.pre, (i \div 8) + 1, i % 8)]
        /\ tamper' = [kind |-> "flip", at |-> i]
    /\ pc' = "tampered"
    /\ UNCHANGED <<arg, typ, query, chunk, wire, parsed>>

\* The encoded chunk is cut short: only its first n bytes arrive.
Truncate ==
    /\ pc = "as_bytes"
    /\ \E n \in 0..(Len(buf.pre) - (1 - buf.gap)) :
        /\ buf' = Buffer(SubSeq(buf.pre, 1, n))
        /\ tamper' = [kind |-> "cut", at |-> n]
    /\ pc' = "tampered"
    /\ UNCHANGED <<arg, typ, query, chunk, wire, parsed>>

\* A caller hands over a buffer of its own.
Supply ==
    /\ pc = "start"
    /\ \E raw \in RawBuffers :
        /\ buf' = Buffer(raw)
        /\ tamper' = [kind |-> "raw", at |-> Len(raw)]
    /\ pc' = "tampered"
    /\ UNCHANGED <<arg, typ, query, chunk, wire, parsed>>

\* Chunk::try_from(buf)
ChunkTryFrom ==
    /\ pc \in {"as_bytes", "tampered"}
    /\ parsed' = Chunk_try_from(buf)
    /\ pc' = "try_from_bytes"
    /\ UNCHANGED <<arg, typ, query, chunk, wire, buf, tamper>>

Next ==
    \/ TypeTryFrom
    \/ TypeFromStr
    \/ IsCritical
    \/ IsPublic
    \/ IsReservedBitValid
    \/ IsSafeToCopy
    \/ IsValid
    \/ ChunkNew
    \/ AsBytes
    \/ FlipBit
    \/ Truncate
    \/ Supply
    \/ ChunkTryFrom

Spec == Init /\ [][Next]_vars

\* ------------------------------------------------------- ChunkType claims

\* 0x41-0x5A and 0x61-0x7A.
Upper(b) == 65 <= b /\ b <= 90

Lower(b) == 97 <= b /\ b <= 122

Letter(b) == Upper(b) \/ Lower(b)

\* C6: ChunkType::try_from(b) succeeds iff each of the 4 bytes is in
\* 0x41-0x5A or 0x61-0x7A; otherwise it fails with NonAlphabeticCharacters;
\* on success bytes() is b.
TypeValidity ==
    pc = "try_from" =>
        /\ typ.ok <=> \A i \in 1..4 : Letter(arg[i])
        /\ ~typ.ok => typ.err = [kind |-> "NonAlphabeticCharacters"]
        /\ typ.ok => bytes(typ.val) = arg

\* A tag with one byte >= 0x80 among letters was refused.
TypeValidityWitness ==
    /\ pc = "try_from"
    /\ arg = <<65, 122, 90, 128>>
    /\ ~typ.ok

\* C7: from_str(s) fails with NonAlphabeticCharacters when s has a char that
\* is no ASCII letter, whatever its length; with InvalidStringLength and the
\* length of s when all chars are letters and there are not 4 of them; and
\* succeeds exactly on 4 letters, with the ChunkType of those 4 bytes.
FromStrOrder ==
    pc = "from_str" =>
        LET letters == \A i \in 1..Len(arg) : Letter(arg[i])
        IN  /\ ~letters => typ = Err([kind |-> "NonAlphabeticCharacters"])
            /\ (letters /\ Len(arg) # 4) =>
                   typ = Err([kind |-> "InvalidStringLength", len |-> Len(arg)])
            /\ typ.ok <=> (letters /\ Len(arg) = 4)
            /\ typ.ok => typ = ChunkType_try_from(arg)

\* "Ru1", short and with a digit, was refused for the digit.
FromStrOrderWitness ==
    /\ pc = "from_str"
    /\ arg = <<82, 117, 49>>
    /\ typ = Err([kind |-> "NonAlphabeticCharacters"])

\* The types that differ from t at most in the bytes other than byte k.
SameByte(t, k) ==
    {[code |-> [c EXCEPT ![k] = t.code[k]]] : c \in [1..4 -> {65, 90, 97, 122}]}

\* C10: is_critical is "byte 0 is uppercase", is_public "byte 1 is
\* uppercase", is_reserved_bit_valid "byte 2 is uppercase", is_safe_to_copy
\* "byte 3 is lowercase", is_valid is is_reserved_bit_valid; each depends on
\* its one byte only; "RuSt" gives true, false, true, true, true and "Rust"
\* gives reserved-bit invalid and not valid.
PropertyBits ==
    pc = "query" =>
        LET t == typ.val
            c == t.code
        IN  /\ query.op = "is_critical" =>
                /\ query.result = Upper(c[1])
                /\ \A u \in SameByte(t, 1) : is_critical(u) = query.result
            /\ query.op = "is_public" =>
                /\ query.result = Upper(c[2])
                /\ \A u \in SameByte(t, 2) : is_public(u) = query.result
            /\ query.op = "is_reserved_bit_valid" =>
                /\ query.result = Upper(c[3])
                /\ \A u \in SameByte(t, 3) : is_reserved_bit_valid(u) = query.result
            /\ query.op = "is_safe_to_copy" =>
                /\ query.result = Lower(c[4])
                /\ \A u \in SameByte(t, 4) : is_safe_to_copy(u) = query.result
            /\ query.op = "is_valid" =>
                /\ query.result = is_reserved_bit_valid(t)
                /\ query.result = Upper(c[3])
            /\ c = RuSt =>
                query.result = (query.op # "is_public")
            /\ c = <<82, 117, 115, 116>> =>
                (query.op \in {"is_reserved_bit_valid", "is_valid"} => ~query.result)

\* "RuSt" was asked whether it is public, and is not.
PropertyBitsWitness ==
    /\ pc = "query"
    /\ typ.val.code = RuSt
    /\ query = [op |-> "is_public", result |-> FALSE]

\* ----------------------------------------------------------- Chunk claims

\* The four bytes b are the big-endian encoding of the u32 x.
BigEndian(b, x) ==
    /\ Len(b) = 4
    /\ \A k \in 1..4 : \A j \in 0..7 :
           (b[k] \div Pow2(j)) % 2 = x[8 * (4 - k) + j + 1]

\* The last four bytes of a buffer.
LastFour(b) ==
    IF b.gap = 0 THEN SubSeq(b.pre, Len(b.pre) - 3, Len(b.pre))
    ELSE SubSeq(b.post, Len(b.post) - 3, Len(b.post))

\* A buffer without its first `front` and last `back` bytes.
Middle(b, front, back) ==
    IF b.gap = 0
    THEN Buffer(SubSeq(b.pre, front + 1, Len(b.pre) - back))
    ELSE [pre  |-> SubSeq(b.pre, front + 1, Len(b.pre)),
          gap  |-> b.gap,
          post |-> SubSeq(b.post, 1, Len(b.post) - back)]

Layout ==
    pc = "as_bytes" =>
        /\ BigEndian(SubSeq(wire.pre, 1, 4), length(chunk))
        /\ SubSeq(wire.pre, 5, 8) = bytes(chunk_type(chunk))
        /\ Middle(wire, 8, 4) = data(chunk)
        /\ BigEndian(LastFour(wire), crc(chunk))
        /\ wire.gap = data(chunk).gap
        /\ Len(wire.pre) + Len(wire.post)
               = 12 + Len(data(chunk).pre) + Len(data(chunk).post)
        /\ arg = <<[code |-> RuSt], Buffer(Message)>> =>
               wire = Buffer(TestingChunkData)

\* C9: c.as_bytes() is the big-endian length, the 4 type bytes, the payload
\* bytes in order and the big-endian crc, 12 bytes more than the payload;
\* and as_bytes leaves the chunk as it was.
SerializationLayout ==
    /\ []Layout
    /\ [][pc' = "as_bytes" => chunk' = chunk]_vars

\* The chunk of the tests was serialized to the bytes of testing_chunk_data.
SerializationLayoutWitness ==
    /\ pc = "as_bytes"
    /\ arg = <<[code |-> RuSt], Buffer(Message)>>
    /\ Len(wire.pre) = 54

\* C8 as stated: a Chunk, built by Chunk::new from a payload of any size or
\* returned by try_from, has length() equal to the number of bytes of data()
\* and crc() equal to the checksum of the type bytes and data().
ChunkInvariant ==
    /\ pc = "new" =>
        /\ AsUsize(length(chunk)) = len(data(chunk))
        /\ crc(chunk) = checksum(Before(bytes(chunk_type(chunk)), data(chunk)))
    /\ (pc = "try_from_bytes" /\ parsed.ok) =>
        /\ AsUsize(length(parsed.val)) = len(data(parsed.val))
        /\ crc(parsed.val)
               = checksum(Before(bytes(chunk_type(parsed.val)), data(parsed.val)))

\* C8 for payloads shorter than 2^32 bytes.
ChunkInvariantBelow4GiB ==
    /\ (pc = "new" /\ data(chunk).gap = 0) =>
        /\ AsUsize(length(chunk)) = len(data(chunk))
        /\ crc(chunk) = checksum(Before(bytes(chunk_type(chunk)), data(chunk)))
    /\ (pc = "try_from_bytes" /\ parsed.ok) =>
        /\ AsUsize(length(parsed.val)) = len(data(parsed.val))
        /\ crc(parsed.val)
               = checksum(Before(bytes(chunk_type(parsed.val)), data(parsed.val)))

\* C1 as stated: try_from(Chunk::new(t, d).as_bytes()) succeeds and returns
\* a chunk with the length, type, data and crc of Chunk::new(t, d).
RoundTrip ==
    (pc = "try_from_bytes" /\ tamper.kind = "none") =>
        /\ parsed.ok
        /\ length(parsed.val) = length(chunk)
        /\ chunk_type(parsed.val) = chunk_type(chunk)
        /\ data(parsed.val) = data(chunk)
        /\ crc(parsed.val) = crc(chunk)

\* C1 for payloads shorter than 2^32 bytes.
RoundTripBelow4GiB ==
    (pc = "try_from_bytes" /\ tamper.kind = "none" /\ data(chunk).gap = 0) =>
        parsed = Ok(chunk)

\* ---- the buffer handed to try_from, read field by field

\* Byte k of a buffer (from 1); past the explicit front of a buffer with a
\* zero block it is one of the zeros.
ByteOf(b, k) == IF k <= Len(b.pre) THEN b.pre[k] ELSE 0

\* The buffer holds at least n bytes (n below 2^32).
Holds(b, n) == b.gap > 0 \/ Len(b.pre) >= n

\* The declared length is 65536 or more.
Oversize(b) == b.pre[1] # 0 \/ b.pre[2] # 0

\* The declared length, when it is below 65536.
Declared(b) == 256 * b.pre[3] + b.pre[4]

TypeField(b) == SubSeq(b.pre, 5, 8)

Letters(s) == \A k \in 1..Len(s) : Letter(s[k])

PayloadOf(b, L) == [i \in 1..L |-> ByteOf(b, 8 + i)]

StoredOf(b, L) == [i \in 1..4 |-> ByteOf(b, 8 + L + i)]

\* The stored checksum after a payload of L bytes is the CRC-32 of the type
\* field and these L bytes.
Verifies(b, L) ==
    StoredOf(b, L) = to_be_bytes(checksum(Buffer(TypeField(b) \o PayloadOf(b, L))))

\* The chunk a buffer spells out when its payload has L bytes.
Spelled(b, L) ==
    [chunk_type |-> [code |-> TypeField(b)],
     data       |-> Buffer(PayloadOf(b, L)),
     length     |-> Bits(L, 32),
     crc        |-> from_be_bytes(StoredOf(b, L))]

\* The buffer is too short for its fields.
Short(b) ==
    /\ b.gap = 0
    /\ \/ Len(b.pre) < 8
       \/ Oversize(b)
       \/ Len(b.pre) < 12 + Declared(b)

TruncatedErr == Err([kind |-> "InvalidChunkData"])

ChecksumErr == Err([kind |-> "ChecksumError"])

BadTypeErr == Err([kind |-> "BadChunkType", source |-> [kind |-> "NonAlphabeticCharacters"]])

\* C4: on a buffer holding a length L, an all-alphabetic type, L payload
\* bytes and a stored checksum, try_from fails with ChecksumError exactly
\* when the stored checksum is not the CRC-32 of the type bytes followed by
\* the L payload bytes, and returns the chunk when it is; the 42-byte vector
\* decodes with checksum 2882656334 and fails with 2882656333.
ChecksumVerification ==
    /\ (/\ pc = "try_from_bytes"
        /\ Holds(buf, 8)
        /\ ~Oversize(buf)
        /\ Holds(buf, 12 + Declared(buf))
        /\ Letters(TypeField(buf))) =>
            /\ parsed = ChecksumErr <=> ~Verifies(buf, Declared(buf))
            /\ Verifies(buf, Declared(buf)) =>
                   parsed = Ok(Spelled(buf, Declared(buf)))
    /\ (pc = "try_from_bytes" /\ buf = Buffer(TestingChunkData)) =>
            /\ parsed.ok
            /\ to_be_bytes(crc(parsed.val)) = <<171, 209, 216, 78>>
    /\ (pc = "try_from_bytes" /\ buf = Buffer(InvalidChunkData)) =>
            parsed = ChecksumErr

\* The buffer of test_invalid_chunk_from_bytes was refused for its checksum.
ChecksumVerificationWitness ==
    /\ pc = "try_from_bytes"
    /\ tamper.kind = "raw"
    /\ buf = Buffer(InvalidChunkData)
    /\ parsed = ChecksumErr

\* C5 as stated: a buffer shorter than a fixed field, or than 12 + L bytes,
\* is refused with InvalidChunkData whatever its bytes are.
TruncationWhateverContent ==
    (pc = "try_from_bytes" /\ Short(buf)) => parsed = TruncatedErr

\* C5: a buffer shorter than 8 bytes is refused with InvalidChunkData; one
\* of 8 bytes or more but fewer than 12 + L is refused with InvalidChunkData
\* when its type field is all letters and with
\* BadChunkType(NonAlphabeticCharacters) when it is not.
TruncationOutcome ==
    (pc = "try_from_bytes" /\ Short(buf)) =>
        parsed = IF Len(buf.pre) >= 8 /\ ~Letters(TypeField(buf))
                 THEN BadTypeErr
                 ELSE TruncatedErr

\* A short buffer with a digit in its type field was refused for its type.
TruncationOutcomeWitness ==
    /\ pc = "try_from_bytes"
    /\ tamper.kind = "raw"
    /\ Short(buf)
    /\ Len(buf.pre) >= 8
    /\ parsed = BadTypeErr

\* The byte (from 1) that the flipped bit lies in.
FlippedByte == (tamper.at \div 8) + 1

\* One bit of an encoded chunk was flipped and the buffer was parsed.
FlipParsed == pc = "try_from_bytes" /\ tamper.kind = "flip"

FieldFlipNeverDecodes ==
    (FlipParsed /\ FlippedByte \notin 5..(Len(buf.pre) - 4)) =>
        parsed \in {TruncatedErr, ChecksumErr}

\* C3: for a payload of L < 2^32 bytes, a flipped checksum bit makes
\* try_from fail with ChecksumError; a flipped length bit that raises the
\* length makes it fail with InvalidChunkData; one that lowers it to L'
\* makes it fail with ChecksumError, unless the 4 bytes after the first L'
\* payload bytes are the CRC-32 of the type and these L' bytes, and then
\* try_from returns the chunk of L' bytes.
FieldFlipOutcome ==
    (FlipParsed /\ FlippedByte \notin 5..(Len(buf.pre) - 4)) =>
        parsed = IF FlippedByte > 4 THEN ChecksumErr
                 ELSE IF Oversize(buf) \/ Declared(buf) > Len(buf.pre) - 12
                 THEN TruncatedErr
                 ELSE IF Verifies(buf, Declared(buf))
                 THEN Ok(Spelled(buf, Declared(buf)))
                 ELSE ChecksumErr

\* A chunk whose payload is the checksum of its type was decoded as an
\* empty chunk after a flip in its length field.
FieldFlipOutcomeWitness ==
    /\ FlipParsed
    /\ FlippedByte = 4
    /\ parsed.ok
    /\ data(parsed.val) = Buffer(<<>>)
    /\ Len(data(chunk).pre) = 4

====
